---- MODULE Spec2Model ----
(***************************************************************************)
(* A model of finserv_api.py: the four HTTP handlers (upload, re-summarize *)
(* by ID, re-summarize with a supplied file, fetch info) running against    *)
(* the Solr document store, the local filesystem, the OCR engine and the    *)
(* Gemini summarizer.  Every call a handler makes to one of these is one    *)
(* step of the request; its outcome (a transport failure, the text found,  *)
(* the summary produced) is chosen nondeterministically.                    *)
(*                                                                          *)
(* Strings are sequences of tokens: "doc_" + hash is <<"doc_", "h1">>,     *)
(* "/tmp/ocr_" is <<"/tmp/", "ocr_">>, so that concatenation, startswith,  *)
(* endswith, replace and strip are computed as the code computes them.     *)
(***************************************************************************)
EXTENDS Naturals, Sequences, FiniteSets, TLC

VARIABLES store, fs, pc, req, nreq

vars == <<store, fs, pc, req, nreq>>

\* ------------------------------------------------------------------ bounds
\* Requests served in one run of the model.
MaxRequests == 2

\* ------------------------------------------------------------- value sets
\* Request tasks; Spec lets one of them, Worker, serve the requests in turn
Procs == {1, 2}

\* Python None where a string is expected (a token no string of the model holds)
None == <<"None">>

\* pdf_path = None
NoPath == <<>>

WS == " "

\* Uploaded contents and their SHA-256 digests (distinct contents, distinct digests).
Contents == {"b1", "b2"}

\* Mutant: a digest that does not depend on the bytes
HashIgnoresContent(content) == <<"h1">>

\* hashlib.sha256(file_content).hexdigest()
calculate_file_hash(content) == IF content = "b1" THEN <<"h1">> ELSE <<"h2">>

\* doc_id = f"doc_{file_hash}"
DocIdOf(content) == <<"doc_">> \o calculate_file_hash(content)

\* file.filename of a multipart upload
FileNames == { <<"a", ".pdf">>, <<"b", ".pdf">>, <<"n", ".txt">> }

\* {doc_id} path parameter of the by-ID routes: any string without a slash
QueryIds == { <<"doc_", "h1">>, <<"doc_", "h2">>, <<"*">> }

\* ---------------------------------------------------------- string helpers
\* str.startswith
StartsWith(s, pre) == Len(s) >= Len(pre) /\ SubSeq(s, 1, Len(pre)) = pre

\* str.endswith
EndsWith(s, suf) ==
  Len(s) >= Len(suf) /\ SubSeq(s, Len(s) - Len(suf) + 1, Len(s)) = suf

RECURSIVE LStrip(_)
LStrip(s) == IF s # <<>> /\ Head(s) = WS THEN LStrip(Tail(s)) ELSE s

RECURSIVE RStrip(_)
RStrip(s) ==
  IF s # <<>> /\ s[Len(s)] = WS THEN RStrip(SubSeq(s, 1, Len(s) - 1)) ELSE s

\* str.strip()
Strip(s) == RStrip(LStrip(s))

\* " ".join(list)
RECURSIVE Join(_)
Join(l) ==
  IF l = <<>> THEN <<>>
  ELSE IF Len(l) = 1 THEN l[1]
  ELSE l[1] \o <<WS>> \o Join(Tail(l))

\* doc_id.replace('doc_', '')
RECURSIVE RemoveDocPrefix(_)
RemoveDocPrefix(s) ==
  IF s = <<>> THEN <<>>
  ELSE IF Head(s) = "doc_" THEN RemoveDocPrefix(Tail(s))
  ELSE <<Head(s)>> \o RemoveDocPrefix(Tail(s))

\* Python truthiness of a str-or-None value
Truthy(x) == x # None /\ x # <<>>

\* bool(s and s.strip())
HasText(s) == Truthy(s) /\ Strip(s) # <<>>

\* ------------------------------------------------------- the document store
\* A Solr document: every field the handlers read is multi-valued (a list),
\* <<>> when the document has no such field.
EmptyRecord ==
  [attr_content |-> <<>>, summary |-> <<>>, file_uri |-> <<>>,
   attr_stream_source_info |-> <<>>]

\* "q": f"id:{doc_id}" handed to Solr's standard query parser: the ids of the
\* documents the query selects.  The value is interpolated unescaped, so
\* id:* selects every document.
Matching(s, doc_id) == {i \in DOMAIN s : doc_id = <<"*">> \/ i = doc_id}

\* check_document_exists: the (exists, docs[0]) pairs the query can return
check_document_exists(s, doc_id) ==
  IF Matching(s, doc_id) = {}
  THEN {[exists |-> FALSE, doc |-> EmptyRecord]}
  ELSE {[exists |-> TRUE, doc |-> s[i]] : i \in Matching(s, doc_id)}

\* docs[0].get("attr_content", ""), a list joined by single spaces
StoredText(doc) == Join(doc.attr_content)

\* get_extracted_text, on the document the query returned: joined and stripped
get_extracted_text(doc) == Strip(StoredText(doc))

\* Mutant: only the first value of a multi-valued attr_content is read
FallbackFirstValue(doc) ==
  Strip(IF doc.attr_content = <<>> THEN <<>> ELSE doc.attr_content[1])

\* get_extracted_text_with_ocr_fallback, the text read before any OCR
FallbackStoredText(doc) == Strip(StoredText(doc))

\* /update?commit=true with [{"id": doc_id, field: {"set": value}}]: an atomic
\* update; Solr adds the document when no document has that id.
SetField(s, doc_id, field, value) ==
  IF doc_id \in DOMAIN s
  THEN [s EXCEPT ![doc_id][field] = <<value>>]
  ELSE (doc_id :> [EmptyRecord EXCEPT ![field] = <<value>>]) @@ s

\* update_solr_with_ocr_text
update_solr_with_ocr_text(s, doc_id, ocr_text) ==
  SetField(s, doc_id, "attr_content", ocr_text)

\* Mutant: the summary is set on the wrong field
SummaryIntoContent(s, doc_id, summary) ==
  SetField(s, doc_id, "attr_content", summary)

\* update_solr_with_summary
update_solr_with_summary(s, doc_id, summary) ==
  SetField(s, doc_id, "summary", summary)

\* What Tika extracts from an uploaded PDF: blank text (a scanned PDF), clean
\* text, or several values with surrounding whitespace.
ExtractOut ==
  { << <<WS>> >>, << <<"x">> >>, << <<WS, "x">>, <<"y">> >> }

\* Mutant: the extracted document is not committed
ExtractNotCommitted(s, doc_id, extracted) == s

\* upload_pdf_to_solr: /update/extract?commit=true&literal.id=doc_id replaces
\* any document of that id by the newly extracted one; the multipart field
\* 'myfile' is what Solr records as stream_source_info.
upload_pdf_to_solr(s, doc_id, extracted) ==
  (doc_id :> [EmptyRecord EXCEPT !.attr_content = extracted,
                                 !.attr_stream_source_info = << <<"myfile">> >>])
  @@ [i \in DOMAIN s \ {doc_id} |-> s[i]]

\* ----------------------------------------------------------- the filesystem
\* fs maps each existing path to the serial number of the request that wrote
\* it (0: a file that was there before the service started).
WriteFile(f, path, n) == (path :> n) @@ [q \in DOMAIN f \ {path} |-> f[q]]

\* os.remove
RemoveFile(f, path) == [q \in DOMAIN f \ {path} |-> f[q]]

\* os.path.exists
Exists(f, path) == path \in DOMAIN f

\* ------------------------------------------------------------ OCR and LLM
\* Page texts Tesseract may produce, each page followed by "\n"
OcrRaw == { <<WS>>, <<"o", WS>> }

\* extract_text_with_ocr: text.strip() of the pages, "" on any exception
extract_text_with_ocr(f, path) ==
  IF Exists(f, path) THEN {Strip(raw) : raw \in OcrRaw} ELSE {<<>>}

\* What model.generate_content can lead summarize_document to return
LlmOut == { None, <<>>, <<WS>>, <<"s">> }

\* summarize_document: None without a call for empty text
summarize_document(document_text) ==
  IF ~Truthy(document_text) THEN {None} ELSE LlmOut

\* Mutant: generate_content is reached whatever the text
CallsLlmAlways(document_text) == TRUE

\* Whether summarize_document reaches model.generate_content
CallsLlm(document_text) == Truthy(document_text)

\* Mutant: only None counts as a failed summarization
SummaryNotNone(summary) == summary # None

\* if summary: / if not summary: on the handlers' side
SummaryUsable(summary) == Truthy(summary)

\* The request after summarize_document returned sm
Summarized(r, sm) ==
  [(IF CallsLlm(r.extracted_text) THEN [r EXCEPT !.log = Append(@, "llm")] ELSE r)
     EXCEPT !.summary = sm]

\* Mutant: the except branch resets the text
OcrWriteBackDropsText(r, ok) ==
  [r EXCEPT !.log = Append(@, IF ok THEN "write_content"
                                    ELSE "write_content_failed"),
            !.extracted_text = IF ok THEN @ ELSE <<>>]

\* try: update_solr_with_ocr_text(...) except Exception: print(...): whether
\* the write succeeded (ok) or raised, the handler goes on with the OCR text
OcrWriteBack(r, ok) ==
  [r EXCEPT !.log = Append(@, IF ok THEN "write_content"
                                    ELSE "write_content_failed")]

\* ---------------------------------------------------------------- requests
\* The handler's local variables, its response, and three history fields: log
\* (the calls made, in order), store0 (the store when the request entered) and
\* stored (the text the store returned, before strip).
IdleReq ==
  [op |-> "none", n |-> 0, fname |-> <<>>, content |-> "", doc_id |-> <<>>,
   exists |-> FALSE, existing_doc |-> EmptyRecord, original_filename |-> <<>>,
   extracted_text |-> <<>>, ocr_text |-> None, pdf_path |-> NoPath,
   temp_path |-> NoPath, summary |-> None,
   status |-> "none", http |-> 0, out_summary |-> <<>>, has_summary |-> FALSE,
   log |-> <<>>, store0 |-> <<>>, stored |-> <<>>]

Logged(r, e) == [r EXCEPT !.log = Append(@, e)]

InLog(r, e) == \E k \in 1..Len(r.log) : r.log[k] = e

Goto(p, r, label) ==
  /\ pc' = [pc EXCEPT ![p] = label]
  /\ req' = [req EXCEPT ![p] = r]

\* return {"status": status, "summary": summary, ...}, then the step `label`
Reply(p, r, status, summary, label) ==
  Goto(p, [r EXCEPT !.status = status, !.http = 200, !.out_summary = summary],
       label)

\* raise HTTPException(status_code=code), or an exception that reaches the
\* framework (500), then the step `label`
Raise(p, r, code, label) ==
  Goto(p, [r EXCEPT !.status = "http_error", !.http = code], label)

\* ------------------------------------------------------------ initial state
\* A path a document's file_uri may name, and the same path under /tmp/ocr_
UriFile == <<"/srv/", "f", ".pdf">>

OcrNamedFile == <<"/tmp/", "ocr_", "f", ".pdf">>

UploadsFile == <<"/uploads/", "myfile">>

\* Documents another indexer may have put into the core before the service
\* runs: without text and with a file_uri, without text and without one, with
\* text and no summary, complete.
InitDocs ==
  { [EmptyRecord EXCEPT !.file_uri = << <<"file://">> \o UriFile >>],
    [EmptyRecord EXCEPT !.file_uri = << OcrNamedFile >>,
                        !.attr_stream_source_info = << <<"myfile">> >>],
    [EmptyRecord EXCEPT !.attr_stream_source_info = << <<"myfile">> >>],
    [EmptyRecord EXCEPT !.attr_content = << <<"x">> >>],
    [EmptyRecord EXCEPT !.attr_content = << <<"x">> >>,
                        !.summary = << <<"s">> >>,
                        !.attr_stream_source_info = << <<"myfile">> >>] }

InitStores ==
  { <<>> } \cup { (<<"doc_", "h1">> :> d) : d \in InitDocs }

\* The files that may be on disk before the service runs
InitFs ==
  { [q \in S |-> 0] :
      S \in { {}, {UploadsFile}, {UriFile, OcrNamedFile, UploadsFile} } }

Init ==
  /\ store \in InitStores
  /\ fs \in InitFs
  /\ pc = [p \in Procs |-> "idle"]
  /\ req = [p \in Procs |-> IdleReq]
  /\ nreq = 0

\* ------------------------------------------------------------ request entry
Quiet(p) == \A q \in Procs \ {p} : pc[q] \in {"idle", "done"}

NewReq(op, fname, content, doc_id) ==
  [IdleReq EXCEPT !.op = op, !.n = nreq + 1, !.fname = fname,
                  !.content = content, !.doc_id = doc_id, !.store0 = store]

Begin(p, r, label) ==
  /\ pc[p] \in {"idle", "done"}
  /\ nreq < MaxRequests
  /\ nreq' = nreq + 1
  /\ Goto(p, r, label)
  /\ UNCHANGED <<store, fs>>

\* POST /upload-pdf/
StartUpload(p) ==
  \E fname \in FileNames, content \in Contents :
    Begin(p, NewReq("upload", fname, content, <<>>), "u_validate")

\* GET /update-summary/{doc_id}
StartUpdateSummary(p) ==
  \E doc_id \in QueryIds :
    Begin(p, NewReq("update_summary", <<>>, "", doc_id), "r_check")

\* POST /update-summary-with-file/{doc_id}: the supplied bytes only fill the
\* temporary file, and what OCR reads from it is any of its outcomes
StartUpdateWithFile(p) ==
  \E doc_id \in QueryIds, fname \in FileNames :
    Begin(p, NewReq("update_with_file", fname, "", doc_id), "w_validate")

\* GET /document/{doc_id}
StartInfo(p) ==
  \E doc_id \in QueryIds :
    Begin(p, NewReq("info", <<>>, "", doc_id), "g_check")

\* ------------------------------------------------- POST /upload-pdf/ (upload)
PdfSuffix == <<".pdf">>

\* original_filename as the handlers compute it from existing_doc
OriginalFilename(doc, default) ==
  IF doc.attr_stream_source_info # <<>>
  THEN doc.attr_stream_source_info[1] ELSE default

\* existing_summary
ExistingSummary(doc) == IF doc.summary # <<>> THEN doc.summary[1] ELSE <<>>

\* Mutant: the summary field is never seen (left out of the query's fl)
SummaryNeverSeen(existing_summary) == FALSE

\* if existing_summary and existing_summary.strip()
SummaryIsComplete(existing_summary) == HasText(existing_summary)

\* Mutant: a known document without summary is indexed again
UploadBranchReindex(exists, existing_summary) ==
  IF exists /\ HasText(existing_summary) THEN "already_exists" ELSE "fresh"

\* The branch upload_and_process_pdf takes after check_document_exists
UploadBranch(exists, existing_summary) ==
  IF ~exists THEN "fresh"
  ELSE IF SummaryIsComplete(existing_summary) THEN "already_exists"
  ELSE "duplicate"

\* The path file_uri names (a leading file:// removed) if it exists, else None
UriPath(doc, f) ==
  IF doc.file_uri = <<>> \/ doc.file_uri[1] = <<>> THEN NoPath
  ELSE LET file_uri == doc.file_uri[1]
           path == IF StartsWith(file_uri, <<"file://">>)
                   THEN SubSeq(file_uri, 2, Len(file_uri)) ELSE file_uri
       IN IF Exists(f, path) THEN path ELSE NoPath

\* temp_ocr_path = f"/tmp/ocr_{file_hash}_{file.filename}"
TempOcrPath(content, fname) ==
  <<"/tmp/", "ocr_">> \o calculate_file_hash(content) \o <<"_">> \o fname

\* temp_file_path = f"/tmp/{file_hash}_{file.filename}"
TempFilePath(content, fname) ==
  <<"/tmp/">> \o calculate_file_hash(content) \o <<"_">> \o fname

\* if pdf_path.startswith("/tmp/ocr_")
IsOcrTemp(path) == StartsWith(path, <<"/tmp/", "ocr_">>)

\* Filename check, file.read(), hash and document id
UploadValidate(p) ==
  /\ pc[p] = "u_validate"
  /\ LET r == req[p] IN
       IF ~EndsWith(r.fname, PdfSuffix)
       THEN Raise(p, r, 400, "done")
       ELSE Goto(p, [r EXCEPT !.doc_id = DocIdOf(r.content)], "u_check")
  /\ UNCHANGED <<store, fs, nreq>>

\* check_document_exists and the branch on the stored summary
UploadCheck(p) ==
  /\ pc[p] = "u_check"
  /\ LET r == req[p] IN
       \/ Raise(p, Logged(r, "check_failed"), 500, "done")
       \/ \E res \in check_document_exists(store, r.doc_id) :
            LET r1 == [Logged(r, "check") EXCEPT
                         !.exists = res.exists,
                         !.existing_doc = res.doc,
                         !.original_filename = OriginalFilename(res.doc, r.fname)]
                branch == UploadBranch(res.exists, ExistingSummary(res.doc))
            IN IF branch = "fresh" THEN Goto(p, r1, "f_write")
               ELSE IF branch = "already_exists"
               THEN Reply(p, r1, "already_exists", ExistingSummary(res.doc), "done")
               ELSE Goto(p, r1, "d_gettext")
  /\ UNCHANGED <<store, fs, nreq>>

\* Duplicate without summary: get_extracted_text
DupGetText(p) ==
  /\ pc[p] = "d_gettext"
  /\ LET r == req[p] IN
       \/ Reply(p, Logged(r, "read_text_failed"), "error", <<>>, "done")
       \/ \E i \in Matching(store, r.doc_id) :
            LET t == get_extracted_text(store[i]) IN
            Goto(p, [Logged(r, "read_text") EXCEPT
                       !.extracted_text = t, !.stored = StoredText(store[i])],
                 IF t # <<>> THEN "d_summarize" ELSE "d_locate")
  /\ UNCHANGED <<store, fs, nreq>>

\* Duplicate without summary: the file file_uri names, if it exists
DupLocate(p) ==
  /\ pc[p] = "d_locate"
  /\ LET r == req[p]
         path == UriPath(r.existing_doc, fs)
     IN Goto(p, [r EXCEPT !.pdf_path = path],
             IF path = NoPath THEN "d_write" ELSE "d_ocr")
  /\ UNCHANGED <<store, fs, nreq>>

\* Duplicate without summary: the upload saved as /tmp/ocr_<hash>_<name>
DupWriteTemp(p) ==
  /\ pc[p] = "d_write"
  /\ LET r == req[p]
         path == TempOcrPath(r.content, r.fname)
     IN \/ /\ fs' = WriteFile(fs, path, r.n)
           /\ Goto(p, [Logged(r, "tmp_write") EXCEPT
                         !.pdf_path = path, !.temp_path = path], "d_ocr")
        \/ \* open() raises: nothing is created
           /\ fs' = fs
           /\ Reply(p, Logged(r, "tmp_write_failed"), "error", <<>>, "done")
        \/ \* write() raises after open() created the file
           /\ fs' = WriteFile(fs, path, r.n)
           /\ Reply(p, [Logged(r, "tmp_write_failed") EXCEPT !.temp_path = path],
                    "error", <<>>, "done")
  /\ UNCHANGED <<store, nreq>>

\* Mutant: the duplicate path gives up without running OCR
DupOcrSkipped(p) ==
  /\ pc[p] = "d_ocr"
  /\ Reply(p, req[p], "no_content", <<>>, "done")
  /\ UNCHANGED <<store, fs, nreq>>

\* Duplicate without summary: if pdf_path and os.path.exists(pdf_path): OCR
DupOcr(p) ==
  /\ pc[p] = "d_ocr"
  /\ LET r == req[p] IN
       IF Exists(fs, r.pdf_path)
       THEN \E t \in extract_text_with_ocr(fs, r.pdf_path) :
              Goto(p, [Logged(r, "ocr") EXCEPT
                         !.extracted_text = t, !.ocr_text = t],
                   IF t # <<>> THEN "d_writeback" ELSE "d_cleanup")
       ELSE Reply(p, r, "no_content", <<>>, "done")
  /\ UNCHANGED <<store, fs, nreq>>

\* Duplicate without summary: OCR text written back, a failure only printed
DupWriteBack(p) ==
  /\ pc[p] = "d_writeback"
  /\ LET r == req[p] IN
       \/ /\ store' = update_solr_with_ocr_text(store, r.doc_id, r.extracted_text)
          /\ Goto(p, OcrWriteBack(r, TRUE), "d_cleanup")
       \/ /\ store' = store
          /\ Goto(p, OcrWriteBack(r, FALSE), "d_cleanup")
  /\ UNCHANGED <<fs, nreq>>

\* Duplicate without summary: the temporary OCR file removed
DupCleanup(p) ==
  /\ pc[p] = "d_cleanup"
  /\ LET r == req[p]
         r1 == IF IsOcrTemp(r.pdf_path) THEN Logged(r, "tmp_remove") ELSE r
     IN /\ fs' = IF IsOcrTemp(r.pdf_path) THEN RemoveFile(fs, r.pdf_path) ELSE fs
        /\ IF r.extracted_text # <<>>
           THEN Goto(p, r1, "d_summarize")
           ELSE Reply(p, r1, "no_content", <<>>, "done")
  /\ UNCHANGED <<store, nreq>>

\* Duplicate without summary: summarize_document
DupSummarize(p) ==
  /\ pc[p] = "d_summarize"
  /\ LET r == req[p] IN
       \E sm \in summarize_document(r.extracted_text) :
         LET r1 == Summarized(r, sm)
         IN IF SummaryUsable(sm) THEN Goto(p, r1, "d_writesum")
            ELSE Reply(p, r1, "summary_failed", <<>>, "done")
  /\ UNCHANGED <<store, fs, nreq>>

\* Duplicate without summary: update_solr_with_summary
DupWriteSummary(p) ==
  /\ pc[p] = "d_writesum"
  /\ LET r == req[p] IN
       \/ /\ store' = update_solr_with_summary(store, r.doc_id, r.summary)
          /\ Reply(p, Logged(r, "write_summary"), "summary_generated",
                   r.summary, "done")
       \/ /\ store' = store
          /\ Reply(p, Logged(r, "write_summary_failed"), "error", <<>>, "done")
  /\ UNCHANGED <<fs, nreq>>

\* New content: the upload saved as /tmp/<hash>_<name>
FreshWriteTemp(p) ==
  /\ pc[p] = "f_write"
  /\ LET r == req[p]
         path == TempFilePath(r.content, r.fname)
         r1 == [r EXCEPT !.temp_path = path, !.pdf_path = path]
     IN \/ /\ fs' = WriteFile(fs, path, r.n)
           /\ Goto(p, Logged(r1, "tmp_write"), "f_extract")
        \/ /\ fs' = fs
           /\ Raise(p, Logged(r1, "tmp_write_failed"), 500, "f_finally")
        \/ /\ fs' = WriteFile(fs, path, r.n)
           /\ Raise(p, Logged(r1, "tmp_write_failed"), 500, "f_finally")
  /\ UNCHANGED <<store, nreq>>

\* New content: upload_pdf_to_solr
FreshExtract(p) ==
  /\ pc[p] = "f_extract"
  /\ LET r == req[p] IN
       \/ /\ Exists(fs, r.temp_path)
          /\ \E extracted \in ExtractOut :
               store' = upload_pdf_to_solr(store, r.doc_id, extracted)
          /\ Goto(p, Logged(r, "extract"), "f_gettext")
       \/ /\ store' = store
          /\ Raise(p, Logged(r, "extract_failed"), 500, "f_finally")
  /\ UNCHANGED <<fs, nreq>>

\* New content: get_extracted_text_with_ocr_fallback, the read
FreshGetText(p) ==
  /\ pc[p] = "f_gettext"
  /\ LET r == req[p] IN
       \/ Raise(p, Logged(r, "read_text_failed"), 500, "f_finally")
       \/ \E i \in Matching(store, r.doc_id) :
            LET t == FallbackStoredText(store[i]) IN
            Goto(p, [Logged(r, "read_text") EXCEPT
                       !.extracted_text = t, !.stored = StoredText(store[i])],
                 IF t # <<>> THEN "f_summarize" ELSE "f_ocr")
  /\ UNCHANGED <<store, fs, nreq>>

\* New content: get_extracted_text_with_ocr_fallback, the OCR fallback
FreshOcr(p) ==
  /\ pc[p] = "f_ocr"
  /\ LET r == req[p] IN
       IF r.pdf_path # NoPath /\ Exists(fs, r.pdf_path)
       THEN \E t \in extract_text_with_ocr(fs, r.pdf_path) :
              LET r1 == [Logged(r, "ocr") EXCEPT
                           !.extracted_text = t, !.ocr_text = t]
              IN IF t # <<>> THEN Goto(p, r1, "f_writeback")
                 ELSE Raise(p, r1, 400, "f_finally")
       ELSE Raise(p, r, 400, "f_finally")
  /\ UNCHANGED <<store, fs, nreq>>

\* New content: OCR text written back, a failure only printed
FreshWriteBack(p) ==
  /\ pc[p] = "f_writeback"
  /\ LET r == req[p] IN
       \/ /\ store' = update_solr_with_ocr_text(store, r.doc_id, r.extracted_text)
          /\ Goto(p, OcrWriteBack(r, TRUE), "f_summarize")
       \/ /\ store' = store
          /\ Goto(p, OcrWriteBack(r, FALSE), "f_summarize")
  /\ UNCHANGED <<fs, nreq>>

\* Mutant: a summary another request stored meanwhile is reported instead of
\* calling the summarizer
FreshSummarizeOnce(p) ==
  /\ pc[p] = "f_summarize"
  /\ LET r == req[p] IN
       IF r.doc_id \in DOMAIN store /\ ExistingSummary(store[r.doc_id]) # <<>>
       THEN Reply(p, r, "success", ExistingSummary(store[r.doc_id]), "f_finally")
       ELSE \E sm \in summarize_document(r.extracted_text) :
              LET r1 == Summarized(r, sm)
              IN IF SummaryUsable(sm) THEN Goto(p, r1, "f_writesum")
                 ELSE Raise(p, r1, 500, "f_finally")
  /\ UNCHANGED <<store, fs, nreq>>

\* New content: summarize_document
FreshSummarize(p) ==
  /\ pc[p] = "f_summarize"
  /\ LET r == req[p] IN
       \E sm \in summarize_document(r.extracted_text) :
         LET r1 == Summarized(r, sm)
         IN IF SummaryUsable(sm) THEN Goto(p, r1, "f_writesum")
            ELSE Raise(p, r1, 500, "f_finally")
  /\ UNCHANGED <<store, fs, nreq>>

\* New content: update_solr_with_summary and the success response
FreshWriteSummary(p) ==
  /\ pc[p] = "f_writesum"
  /\ LET r == req[p] IN
       \/ /\ store' = update_solr_with_summary(store, r.doc_id, r.summary)
          /\ Reply(p, Logged(r, "write_summary"), "success", r.summary,
                   "f_finally")
       \/ /\ store' = store
          /\ Raise(p, Logged(r, "write_summary_failed"), 500, "f_finally")
  /\ UNCHANGED <<fs, nreq>>

\* New content: finally: the temporary file removed if it exists
FreshFinally(p) ==
  /\ pc[p] = "f_finally"
  /\ LET r == req[p] IN
       IF Exists(fs, r.temp_path)
       THEN /\ fs' = RemoveFile(fs, r.temp_path)
            /\ Goto(p, Logged(r, "tmp_remove"), "done")
       ELSE /\ fs' = fs
            /\ Goto(p, r, "done")
  /\ UNCHANGED <<store, nreq>>

\* --------------------------- GET /update-summary/{doc_id} (update_summary)
\* Mutant: /uploads is probed before /tmp
PotentialPathsUploadsFirst(doc_id, original_filename) ==
  << <<"/uploads/">> \o original_filename,
     <<"/uploads/">> \o doc_id \o <<"_">> \o original_filename,
     <<"/tmp/">> \o RemoveDocPrefix(doc_id) \o <<"_">> \o original_filename,
     <<"/tmp/">> \o original_filename,
     <<"/tmp/">> \o doc_id \o <<"_">> \o original_filename >>

\* potential_paths
PotentialPaths(doc_id, original_filename) ==
  << <<"/tmp/">> \o RemoveDocPrefix(doc_id) \o <<"_">> \o original_filename,
     <<"/tmp/">> \o original_filename,
     <<"/tmp/">> \o doc_id \o <<"_">> \o original_filename,
     <<"/uploads/">> \o original_filename,
     <<"/uploads/">> \o doc_id \o <<"_">> \o original_filename >>

\* for path in potential_paths: if os.path.exists(path): pdf_path = path; break
RECURSIVE FirstExisting(_, _)
FirstExisting(paths, f) ==
  IF paths = <<>> THEN NoPath
  ELSE IF Exists(f, Head(paths)) THEN Head(paths)
  ELSE FirstExisting(Tail(paths), f)

\* The source file update_document_summary runs OCR on, or None
LocateSource(doc, doc_id, original_filename, f) ==
  IF UriPath(doc, f) # NoPath THEN UriPath(doc, f)
  ELSE FirstExisting(PotentialPaths(doc_id, original_filename), f)

\* check_document_exists, 404 when nothing matches
UpdCheck(p) ==
  /\ pc[p] = "r_check"
  /\ LET r == req[p] IN
       \/ Raise(p, Logged(r, "check_failed"), 500, "done")
       \/ \E res \in check_document_exists(store, r.doc_id) :
            LET r1 == [Logged(r, "check") EXCEPT
                         !.exists = res.exists,
                         !.existing_doc = res.doc,
                         !.original_filename =
                            OriginalFilename(res.doc, <<"unknown">>)]
            IN IF ~res.exists THEN Raise(p, r1, 404, "done")
               ELSE Goto(p, r1, "r_gettext")
  /\ UNCHANGED <<store, fs, nreq>>

\* get_extracted_text
UpdGetText(p) ==
  /\ pc[p] = "r_gettext"
  /\ LET r == req[p] IN
       \/ Raise(p, Logged(r, "read_text_failed"), 500, "done")
       \/ \E i \in Matching(store, r.doc_id) :
            LET t == get_extracted_text(store[i]) IN
            Goto(p, [Logged(r, "read_text") EXCEPT
                       !.extracted_text = t, !.stored = StoredText(store[i])],
                 IF Strip(t) # <<>> THEN "r_summarize" ELSE "r_locate")
  /\ UNCHANGED <<store, fs, nreq>>

\* file_uri, then the conventional paths; 400 when no file is found
UpdLocate(p) ==
  /\ pc[p] = "r_locate"
  /\ LET r == req[p]
         path == LocateSource(r.existing_doc, r.doc_id, r.original_filename, fs)
     IN IF path # NoPath
        THEN Goto(p, [r EXCEPT !.pdf_path = path], "r_ocr")
        ELSE Raise(p, r, 400, "done")
  /\ UNCHANGED <<store, fs, nreq>>

\* Mutant: the write-back and the summarization are not guarded by the OCR
\* result
UpdOcrUnguarded(p) ==
  /\ pc[p] = "r_ocr"
  /\ LET r == req[p] IN
       \E t \in extract_text_with_ocr(fs, r.pdf_path) :
         Goto(p, [Logged(r, "ocr") EXCEPT !.extracted_text = t, !.ocr_text = t],
              "r_writeback")
  /\ UNCHANGED <<store, fs, nreq>>

\* extract_text_with_ocr on the located file; 400 when it finds nothing
UpdOcr(p) ==
  /\ pc[p] = "r_ocr"
  /\ LET r == req[p] IN
       \E t \in extract_text_with_ocr(fs, r.pdf_path) :
         LET r1 == [Logged(r, "ocr") EXCEPT !.extracted_text = t, !.ocr_text = t]
         IN IF t # <<>> THEN Goto(p, r1, "r_writeback")
            ELSE Raise(p, r1, 400, "done")
  /\ UNCHANGED <<store, fs, nreq>>

\* OCR text written back, a failure only printed
UpdWriteBack(p) ==
  /\ pc[p] = "r_writeback"
  /\ LET r == req[p] IN
       \/ /\ store' = update_solr_with_ocr_text(store, r.doc_id, r.extracted_text)
          /\ Goto(p, OcrWriteBack(r, TRUE), "r_summarize")
       \/ /\ store' = store
          /\ Goto(p, OcrWriteBack(r, FALSE), "r_summarize")
  /\ UNCHANGED <<fs, nreq>>

\* Mutant: whatever summarize_document returned is written
UpdSummarizeUnguarded(p) ==
  /\ pc[p] = "r_summarize"
  /\ LET r == req[p] IN
       IF Strip(r.extracted_text) = <<>> THEN Raise(p, r, 400, "done")
       ELSE \E sm \in summarize_document(r.extracted_text) :
              Goto(p, Summarized(r, sm), "r_writesum")
  /\ UNCHANGED <<store, fs, nreq>>

\* summarize_document (the custom question changes the prompt only)
UpdSummarize(p) ==
  /\ pc[p] = "r_summarize"
  /\ LET r == req[p] IN
       IF Strip(r.extracted_text) = <<>> THEN Raise(p, r, 400, "done")
       ELSE \E sm \in summarize_document(r.extracted_text) :
              LET r1 == Summarized(r, sm)
              IN IF SummaryUsable(sm) THEN Goto(p, r1, "r_writesum")
                 ELSE Raise(p, r1, 500, "done")
  /\ UNCHANGED <<store, fs, nreq>>

\* update_solr_with_summary and the summary_updated response
UpdWriteSummary(p) ==
  /\ pc[p] = "r_writesum"
  /\ LET r == req[p] IN
       \/ /\ store' = update_solr_with_summary(store, r.doc_id, r.summary)
          /\ Reply(p, Logged(r, "write_summary"), "summary_updated",
                   r.summary, "done")
       \/ /\ store' = store
          /\ Raise(p, Logged(r, "write_summary_failed"), 500, "done")
  /\ UNCHANGED <<fs, nreq>>

\* --------------- POST /update-summary-with-file/{doc_id} (update_with_file)
\* temp_file_path = f"/tmp/ocr_{doc_id}_{file.filename}"
WithFileTempPath(doc_id, fname) ==
  <<"/tmp/", "ocr_">> \o doc_id \o <<"_">> \o fname

\* Filename check
WfValidate(p) ==
  /\ pc[p] = "w_validate"
  /\ LET r == req[p] IN
       IF ~EndsWith(r.fname, PdfSuffix)
       THEN Raise(p, r, 400, "done")
       ELSE Goto(p, r, "w_check")
  /\ UNCHANGED <<store, fs, nreq>>

\* check_document_exists, 404 when nothing matches
WfCheck(p) ==
  /\ pc[p] = "w_check"
  /\ LET r == req[p] IN
       \/ Raise(p, Logged(r, "check_failed"), 500, "done")
       \/ \E res \in check_document_exists(store, r.doc_id) :
            LET r1 == [Logged(r, "check") EXCEPT
                         !.exists = res.exists,
                         !.existing_doc = res.doc,
                         !.original_filename =
                            OriginalFilename(res.doc, <<"unknown">>)]
            IN IF ~res.exists THEN Raise(p, r1, 404, "done")
               ELSE Goto(p, r1, "w_write")
  /\ UNCHANGED <<store, fs, nreq>>

\* The supplied file saved as /tmp/ocr_<doc_id>_<name>
WfWriteTemp(p) ==
  /\ pc[p] = "w_write"
  /\ LET r == req[p]
         path == WithFileTempPath(r.doc_id, r.fname)
         r1 == [r EXCEPT !.temp_path = path, !.pdf_path = path]
     IN \/ /\ fs' = WriteFile(fs, path, r.n)
           /\ Goto(p, Logged(r1, "tmp_write"), "w_ocr")
        \/ /\ fs' = fs
           /\ Raise(p, Logged(r1, "tmp_write_failed"), 500, "w_finally")
        \/ /\ fs' = WriteFile(fs, path, r.n)
           /\ Raise(p, Logged(r1, "tmp_write_failed"), 500, "w_finally")
  /\ UNCHANGED <<store, nreq>>

\* extract_text_with_ocr on the supplied file; 400 when it finds nothing
WfOcr(p) ==
  /\ pc[p] = "w_ocr"
  /\ LET r == req[p] IN
       \E t \in extract_text_with_ocr(fs, r.temp_path) :
         LET r1 == [Logged(r, "ocr") EXCEPT !.extracted_text = t, !.ocr_text = t]
         IN IF Strip(t) # <<>> THEN Goto(p, r1, "w_writeocr")
            ELSE Raise(p, r1, 400, "w_finally")
  /\ UNCHANGED <<store, fs, nreq>>

\* Mutant: a failed write of the OCR text is only printed
WfWriteContentBestEffort(p) ==
  /\ pc[p] = "w_writeocr"
  /\ LET r == req[p] IN
       \/ /\ store' = update_solr_with_ocr_text(store, r.doc_id, r.extracted_text)
          /\ Goto(p, Logged(r, "write_content"), "w_summarize")
       \/ /\ store' = store
          /\ Goto(p, Logged(r, "write_content_failed"), "w_summarize")
  /\ UNCHANGED <<fs, nreq>>

\* update_solr_with_ocr_text, here on the mandatory path
WfWriteContent(p) ==
  /\ pc[p] = "w_writeocr"
  /\ LET r == req[p] IN
       \/ /\ store' = update_solr_with_ocr_text(store, r.doc_id, r.extracted_text)
          /\ Goto(p, Logged(r, "write_content"), "w_summarize")
       \/ /\ store' = store
          /\ Raise(p, Logged(r, "write_content_failed"), 500, "w_finally")
  /\ UNCHANGED <<fs, nreq>>

\* summarize_document
WfSummarize(p) ==
  /\ pc[p] = "w_summarize"
  /\ LET r == req[p] IN
       \E sm \in summarize_document(r.extracted_text) :
         LET r1 == Summarized(r, sm)
         IN IF SummaryUsable(sm) THEN Goto(p, r1, "w_writesum")
            ELSE Raise(p, r1, 500, "w_finally")
  /\ UNCHANGED <<store, fs, nreq>>

\* update_solr_with_summary and the summary_updated_with_ocr response
WfWriteSummary(p) ==
  /\ pc[p] = "w_writesum"
  /\ LET r == req[p] IN
       \/ /\ store' = update_solr_with_summary(store, r.doc_id, r.summary)
          /\ Reply(p, Logged(r, "write_summary"), "summary_updated_with_ocr",
                   r.summary, "w_finally")
       \/ /\ store' = store
          /\ Raise(p, Logged(r, "write_summary_failed"), 500, "w_finally")
  /\ UNCHANGED <<fs, nreq>>

\* finally: the temporary file removed if it exists
WfFinally(p) ==
  /\ pc[p] = "w_finally"
  /\ LET r == req[p] IN
       IF Exists(fs, r.temp_path)
       THEN /\ fs' = RemoveFile(fs, r.temp_path)
            /\ Goto(p, Logged(r, "tmp_remove"), "done")
       ELSE /\ fs' = fs
            /\ Goto(p, r, "done")
  /\ UNCHANGED <<store, nreq>>

\* ------------------------------------------- GET /document/{doc_id} (info)
InfoCheck(p) ==
  /\ pc[p] = "g_check"
  /\ LET r == req[p] IN
       \/ Raise(p, Logged(r, "check_failed"), 500, "done")
       \/ \E res \in check_document_exists(store, r.doc_id) :
            LET r1 == [Logged(r, "check") EXCEPT
                         !.exists = res.exists,
                         !.existing_doc = res.doc,
                         !.original_filename =
                            OriginalFilename(res.doc, <<"unknown">>),
                         !.has_summary = HasText(ExistingSummary(res.doc))]
            IN IF ~res.exists THEN Raise(p, r1, 404, "done")
               ELSE Reply(p, r1, "found", ExistingSummary(res.doc), "done")
  /\ UNCHANGED <<store, fs, nreq>>

\* ------------------------------------------------------------ specification
\* One step of the request process p is serving
Step(p) ==
  \/ UploadValidate(p) \/ UploadCheck(p)
  \/ DupGetText(p) \/ DupLocate(p) \/ DupWriteTemp(p) \/ DupOcr(p)
  \/ DupWriteBack(p) \/ DupCleanup(p) \/ DupSummarize(p) \/ DupWriteSummary(p)
  \/ FreshWriteTemp(p) \/ FreshExtract(p) \/ FreshGetText(p) \/ FreshOcr(p)
  \/ FreshWriteBack(p) \/ FreshSummarize(p) \/ FreshWriteSummary(p)
  \/ FreshFinally(p)
  \/ UpdCheck(p) \/ UpdGetText(p) \/ UpdLocate(p) \/ UpdOcr(p)
  \/ UpdWriteBack(p) \/ UpdSummarize(p) \/ UpdWriteSummary(p)
  \/ WfValidate(p) \/ WfCheck(p) \/ WfWriteTemp(p) \/ WfOcr(p)
  \/ WfWriteContent(p) \/ WfSummarize(p) \/ WfWriteSummary(p) \/ WfFinally(p)
  \/ InfoCheck(p)

\* A request enters
Start(p) ==
  \/ StartUpload(p) \/ StartUpdateSummary(p)
  \/ StartUpdateWithFile(p) \/ StartInfo(p)

\* The handlers are coroutines whose store, OCR and LLM calls block the event
\* loop: one worker serves one request at a time.
Worker == 1

Next ==
  \/ Start(Worker) /\ Quiet(Worker)
  \/ Step(Worker)

Spec == Init /\ [][Next]_vars

\* ------------------------------- GET /update-summary/{doc_id} and the disk
\* The file a file_uri names and the five conventional places of the document
\* doc_<h1> uploaded as 'myfile'
LocateFiles ==
  {UriFile} \cup
  {PotentialPaths(<<"doc_", "h1">>, <<"myfile">>)[k] : k \in 1..5}

\* A document without text: no file_uri, a file:// URI, a bare path
LocateDocs ==
  { [EmptyRecord EXCEPT !.attr_stream_source_info = << <<"myfile">> >>,
                        !.file_uri = u] :
      u \in { <<>>, << <<"file://">> \o UriFile >>, << UriFile >> } }

\* Any of those files may be on disk, whatever the document says
InitLocate ==
  /\ store \in { (<<"doc_", "h1">> :> d) : d \in LocateDocs }
  /\ fs \in { [q \in S |-> 0] : S \in SUBSET LocateFiles }
  /\ pc = [p \in Procs |-> "idle"]
  /\ req = [p \in Procs |-> IdleReq]
  /\ nreq = 0

\* Re-summarize by ID, one request after the other
NextLocate ==
  \/ StartUpdateSummary(Worker) /\ Quiet(Worker)
  \/ UpdCheck(Worker) \/ UpdGetText(Worker) \/ UpdLocate(Worker)
  \/ UpdOcr(Worker) \/ UpdWriteBack(Worker) \/ UpdSummarize(Worker)
  \/ UpdWriteSummary(Worker)

SpecLocate == InitLocate /\ [][NextLocate]_vars

\* ------------------------------------------------ several worker processes
\* The service run with more than one worker process: every process serves its
\* own request, and the store and the disk are shared, so the calls of two
\* requests interleave (or follow each other, when one ends before the other
\* starts).  The requests are uploads and re-summarize with a
\* supplied file, the operations that write temporary files.
ConcNames == { <<"a", ".pdf">>, <<"b", ".pdf">> }

\* The core before the requests: empty, or holding the document of the bytes
\* b1 without text and without summary
ConcStores ==
  { <<>>,
    (<<"doc_", "h1">> :>
       [EmptyRecord EXCEPT !.attr_stream_source_info = << <<"myfile">> >>]) }

InitConc ==
  /\ store \in ConcStores
  /\ fs = <<>>
  /\ pc = [p \in Procs |-> "idle"]
  /\ req = [p \in Procs |-> IdleReq]
  /\ nreq = 0

\* A request reaches a process that has served none: each process serves one
ConcBegin(p, r, label) == pc[p] = "idle" /\ Begin(p, r, label)

\* POST /upload-pdf/
ConcStartUpload(p) ==
  \E fname \in ConcNames, content \in Contents :
    ConcBegin(p, NewReq("upload", fname, content, <<>>), "u_validate")

\* POST /update-summary-with-file/doc_<h1>, with the bytes that were sent
ConcStartUpdateWithFile(p) ==
  \E content \in Contents :
    ConcBegin(p, NewReq("update_with_file", <<"a", ".pdf">>, content,
                        <<"doc_", "h1">>), "w_validate")

\* One step of the request process p is serving, in these two operations
ConcStep(p) ==
  \/ UploadValidate(p) \/ UploadCheck(p)
  \/ DupGetText(p) \/ DupLocate(p) \/ DupWriteTemp(p) \/ DupOcr(p)
  \/ DupWriteBack(p) \/ DupCleanup(p) \/ DupSummarize(p) \/ DupWriteSummary(p)
  \/ FreshWriteTemp(p) \/ FreshExtract(p) \/ FreshGetText(p) \/ FreshOcr(p)
  \/ FreshWriteBack(p) \/ FreshSummarize(p) \/ FreshWriteSummary(p)
  \/ FreshFinally(p)
  \/ WfValidate(p) \/ WfCheck(p) \/ WfWriteTemp(p) \/ WfOcr(p)
  \/ WfWriteContent(p) \/ WfSummarize(p) \/ WfWriteSummary(p) \/ WfFinally(p)

NextConc ==
  \E p \in Procs :
    \/ ConcStartUpload(p)
    \/ ConcStartUpdateWithFile(p)
    \/ ConcStep(p)

SpecConc == InitConc /\ [][NextConc]_vars

\* ------------------------------------------------------------------ claims
\* Position of the first e in the log, 0 when it is not there
Pos(r, e) ==
  IF InLog(r, e)
  THEN CHOOSE k \in 1..Len(r.log) :
         r.log[k] = e /\ \A j \in 1..(k - 1) : r.log[j] # e
  ELSE 0

\* A write to the store was attempted
Wrote(r) ==
  \/ InLog(r, "extract") \/ InLog(r, "extract_failed")
  \/ InLog(r, "write_content") \/ InLog(r, "write_content_failed")
  \/ InLog(r, "write_summary") \/ InLog(r, "write_summary_failed")

\* The summary field of the document doc_id in store s, <<>> when there is none
SummaryField(s, doc_id) == IF doc_id \in DOMAIN s THEN s[doc_id].summary ELSE <<>>

\* An upload with a .pdf name whose existence check answered, the id being
\* in the store, when the request entered, with / without a complete summary
UploadOfComplete(p) ==
  /\ req[p].op = "upload" /\ InLog(req[p], "check")
  /\ req[p].doc_id \in DOMAIN req[p].store0
  /\ HasText(ExistingSummary(req[p].store0[req[p].doc_id]))

UploadOfIncomplete(p) ==
  /\ req[p].op = "upload" /\ InLog(req[p], "check")
  /\ req[p].doc_id \in DOMAIN req[p].store0
  /\ ~HasText(ExistingSummary(req[p].store0[req[p].doc_id]))

UploadOfAbsent(p) ==
  /\ req[p].op = "upload" /\ InLog(req[p], "check")
  /\ req[p].doc_id \notin DOMAIN req[p].store0

\* C1: an upload (named *.pdf, its existence check answered) of bytes whose
\* id is in the store with a non-blank summary is answered already_exists
\* with the stored summary right after the existence check: no extraction,
\* OCR, summarization or write is made, no temporary file is written and the
\* store is what it was when the request entered.
C1_AlreadyExistsNoWork ==
  \A p \in Procs :
    UploadOfComplete(p) =>
      /\ pc[p] = "done"
      /\ req[p].status = "already_exists" /\ req[p].http = 200
      /\ req[p].out_summary = ExistingSummary(req[p].store0[req[p].doc_id])
      /\ req[p].log = <<"check">>
      /\ req[p].temp_path = NoPath
      /\ store = req[p].store0

\* C1 witness: the second request is an upload of bytes a first upload
\* indexed and summarized, answered already_exists.
C1_Witness ==
  \E p \in Procs :
    /\ UploadOfComplete(p) /\ pc[p] = "done" /\ req[p].n = 2
    /\ req[p].status = "already_exists"
    /\ req[p].store0[req[p].doc_id].attr_content = << <<WS, "x">>, <<"y">> >>

DupStatuses == {"summary_generated", "summary_failed", "no_content"}

\* C2 as stated: an upload of bytes whose id is in the store without summary
\* ends with summary_generated, summary_failed or no_content, whatever the
\* store, OCR and summarizer do, and never calls extract-and-index.
C2_Original ==
  \A p \in Procs :
    (UploadOfIncomplete(p) /\ pc[p] = "done") =>
      /\ req[p].status \in DupStatuses
      /\ ~InLog(req[p], "extract") /\ ~InLog(req[p], "extract_failed")

\* C2 amended: such an upload ends with a normal response whose status is
\* summary_generated, summary_failed, no_content or error (error when a store
\* call or the temporary file's write raised), and at no step of it is
\* extract-and-index called.
C2_DuplicateOutcomes ==
  \A p \in Procs :
    UploadOfIncomplete(p) =>
      /\ ~InLog(req[p], "extract") /\ ~InLog(req[p], "extract_failed")
      /\ pc[p] \notin {"f_write", "f_extract", "f_gettext", "f_ocr",
                       "f_writeback", "f_summarize", "f_writesum", "f_finally"}
      /\ pc[p] = "done" =>
           /\ req[p].status \in DupStatuses \cup {"error"}
           /\ req[p].http = 200
           /\ req[p].status = "error" <=>
                \/ InLog(req[p], "read_text_failed")
                \/ InLog(req[p], "tmp_write_failed")
                \/ InLog(req[p], "write_summary_failed")

\* C2 witness: a duplicate without summary ended with status error because
\* the summary write failed.
C2_Witness ==
  \E p \in Procs :
    /\ UploadOfIncomplete(p) /\ pc[p] = "done"
    /\ req[p].status = "error" /\ InLog(req[p], "write_summary_failed")

\* C3: an upload of bytes whose id is not in the store reports success only
\* after extract-and-index, then a text read or OCR giving non-empty text,
\* then a summarization giving a non-empty summary, then the summary write,
\* each having succeeded in this order; and from that report on (no other
\* request running) the store holds the record identify(bytes) with exactly
\* the summary returned.  No other upload reports success.
C3_SuccessAfterPipeline ==
  \A p \in Procs :
    (req[p].op = "upload" /\ req[p].status = "success") =>
      /\ UploadOfAbsent(p)
      /\ req[p].doc_id = DocIdOf(req[p].content)
      /\ 0 < Pos(req[p], "extract")
      /\ Pos(req[p], "extract") < Pos(req[p], "read_text")
      /\ Pos(req[p], "read_text") < Pos(req[p], "llm")
      /\ InLog(req[p], "ocr") =>
           /\ Pos(req[p], "read_text") < Pos(req[p], "ocr")
           /\ Pos(req[p], "ocr") < Pos(req[p], "llm")
      /\ Pos(req[p], "llm") < Pos(req[p], "write_summary")
      /\ ~InLog(req[p], "write_summary_failed")
      /\ req[p].extracted_text # <<>>
      /\ Truthy(req[p].summary)
      /\ req[p].out_summary = req[p].summary
      /\ req[p].doc_id \in DOMAIN store
      /\ store[req[p].doc_id].summary = << req[p].out_summary >>

\* C3 witness: success has just been reported (the finally block is still to
\* run) for a scanned PDF whose text came from OCR.
C3_Witness ==
  \E p \in Procs :
    /\ req[p].op = "upload" /\ req[p].status = "success"
    /\ pc[p] = "f_finally" /\ InLog(req[p], "ocr")
    /\ store[req[p].doc_id].summary = << <<"s">> >>

\* C4 as stated: once a request has ended, however it ended, no file that
\* request wrote is left on disk.
C4_TempFileRemoved ==
  \A p \in Procs :
    pc[p] = "done" => \A path \in DOMAIN fs : fs[path] # req[p].n

\* The text the store returned to a new upload's text resolution
FreshRead(p) ==
  /\ req[p].op = "upload" /\ InLog(req[p], "extract")
  /\ InLog(req[p], "read_text")

\* C5 as stated: when the store's text is not blank, text resolution returns
\* it unchanged.
C5_Original ==
  \A p \in Procs :
    (FreshRead(p) /\ Strip(req[p].stored) # <<>> /\ ~InLog(req[p], "ocr")) =>
      req[p].extracted_text = req[p].stored

\* C5 amended: when the store's text (its values joined by single spaces) is
\* not blank, get_extracted_text_with_ocr_fallback returns it with leading
\* and trailing whitespace removed and neither runs OCR nor writes
\* extracted_content; OCR runs only when the store's text is empty or blank,
\* on a file that exists.
C5_StoredTextFirst ==
  \A p \in Procs :
    FreshRead(p) =>
      /\ Strip(req[p].stored) # <<>> =>
           /\ req[p].extracted_text = Strip(req[p].stored)
           /\ req[p].ocr_text = None
           /\ ~InLog(req[p], "ocr")
           /\ ~InLog(req[p], "write_content")
           /\ ~InLog(req[p], "write_content_failed")
           /\ pc[p] \notin {"f_ocr", "f_writeback"}
      /\ (pc[p] = "f_ocr" \/ InLog(req[p], "ocr")) => Strip(req[p].stored) = <<>>
      /\ (InLog(req[p], "ocr") /\ pc[p] # "done") => Exists(fs, req[p].pdf_path)

\* C5 witness: the store returned several values with surrounding whitespace
\* and the summarizer is about to get them joined and stripped, no OCR made.
C5_Witness ==
  \E p \in Procs :
    /\ FreshRead(p) /\ pc[p] = "f_summarize"
    /\ req[p].stored = <<WS, "x", WS, "y">>
    /\ req[p].extracted_text = <<"x", WS, "y">>
    /\ ~InLog(req[p], "ocr")

\* C6: in a new upload, a duplicate-without-summary upload and a re-summarize
\* by ID, once OCR gave text and its write-back was attempted, the text the
\* handler holds is the OCR output whether the write succeeded or failed, and
\* after a failed write the handler goes on to the summarizer with it.
C6_WriteBackBestEffort ==
  \A p \in Procs :
    ( /\ req[p].op \in {"upload", "update_summary"}
      /\ (InLog(req[p], "write_content") \/ InLog(req[p], "write_content_failed")) )
    =>
      /\ req[p].ocr_text # None /\ req[p].ocr_text # <<>>
      /\ req[p].extracted_text = req[p].ocr_text
      /\ \/ pc[p] \in {"d_cleanup", "d_summarize", "f_summarize", "r_summarize"}
         \/ InLog(req[p], "llm")

\* C6 witness: the write-back failed and the request still ended with a
\* summary made from the OCR text and stored.
C6_Witness ==
  \E p \in Procs :
    /\ InLog(req[p], "write_content_failed") /\ InLog(req[p], "write_summary")
    /\ pc[p] = "done" /\ req[p].http = 200
    /\ req[p].extracted_text = <<"o">>

\* C7: when summarize_document returns nothing usable in an upload, the
\* duplicate-without-summary path answers summary_failed as a normal response,
\* the new-content path ends with a 500, and in both no summary write is
\* attempted: the record's summary field is what it was when the request
\* entered.
C7_SummarizationFailure ==
  \A p \in Procs :
    ( /\ req[p].op = "upload" /\ InLog(req[p], "llm")
      /\ ~Truthy(req[p].summary) )
    =>
      /\ ~InLog(req[p], "write_summary")
      /\ ~InLog(req[p], "write_summary_failed")
      /\ SummaryField(store, req[p].doc_id)
           = SummaryField(req[p].store0, req[p].doc_id)
      /\ req[p].exists =>
           /\ pc[p] = "done"
           /\ req[p].status = "summary_failed" /\ req[p].http = 200
      /\ ~req[p].exists =>
           /\ pc[p] \in {"f_finally", "done"}
           /\ req[p].status = "http_error" /\ req[p].http = 500

\* C7 witness: the second request, a duplicate without summary, ended with
\* summary_failed after the summarizer returned None.
C7_Witness ==
  \E p \in Procs :
    /\ req[p].op = "upload" /\ InLog(req[p], "llm") /\ req[p].summary = None
    /\ req[p].exists /\ pc[p] = "done" /\ req[p].n = 2
    /\ req[p].status = "summary_failed"

\* C8 as stated: fetch-info and re-summarize by ID with an id that is not in
\* the store end with 404 right after the existence check, nothing read or
\* written, the store as it was.
C8_AbsentIdNotFound ==
  \A p \in Procs :
    ( /\ req[p].op \in {"update_summary", "info"} /\ InLog(req[p], "check")
      /\ req[p].doc_id \notin DOMAIN req[p].store0 )
    =>
      /\ pc[p] = "done"
      /\ req[p].status = "http_error" /\ req[p].http = 404
      /\ req[p].log = <<"check">>
      /\ store = req[p].store0

\* The file re-summarize by ID finds for the document it was given
Located(p) ==
  LocateSource(req[p].existing_doc, req[p].doc_id, req[p].original_filename, fs)

\* C9: re-summarize by ID, given a document by the existence check, whose
\* text read gave empty or blank text, ends with 400 when no source file is
\* located or when OCR of the located file gives nothing; the summarizer is
\* not called, nothing is written and the store is as it was.
C9_NoTextIs400 ==
  \A p \in Procs :
    ( /\ req[p].op = "update_summary" /\ req[p].exists
      /\ InLog(req[p], "read_text") /\ Strip(req[p].stored) = <<>>
      /\ pc[p] # "r_locate"
      /\ (Located(p) = NoPath \/ req[p].ocr_text = <<>>) )
    =>
      /\ pc[p] = "done"
      /\ req[p].status = "http_error" /\ req[p].http = 400
      /\ ~InLog(req[p], "llm")
      /\ ~Wrote(req[p])
      /\ store = req[p].store0

\* C9 witness: the file file_uri names was found, OCR of it gave nothing and
\* the request ended with 400.
C9_Witness ==
  \E p \in Procs :
    /\ req[p].op = "update_summary" /\ req[p].exists /\ pc[p] = "done"
    /\ req[p].pdf_path = UriFile
    /\ InLog(req[p], "ocr") /\ req[p].ocr_text = <<>>
    /\ req[p].http = 400

\* C10 as stated, for the files that pass the handler's .pdf check:
\* re-summarize with a supplied file, with an id that is not in the store,
\* ends with 404 and writes nothing to the store.
C10_AbsentIdNotFound ==
  \A p \in Procs :
    ( /\ req[p].op = "update_with_file" /\ InLog(req[p], "check")
      /\ EndsWith(req[p].fname, PdfSuffix)
      /\ req[p].doc_id \notin DOMAIN req[p].store0 )
    =>
      /\ pc[p] = "done"
      /\ req[p].status = "http_error" /\ req[p].http = 404
      /\ ~Wrote(req[p])
      /\ store = req[p].store0

\* The places the claim lists, in its order, for the id and the name the
\* request works with
C11_Candidates(r) ==
  LET hash == RemoveDocPrefix(r.doc_id)
      id == r.doc_id
      name == r.original_filename
  IN << <<"/tmp/">> \o hash \o <<"_">> \o name,
        <<"/tmp/">> \o name,
        <<"/tmp/">> \o id \o <<"_">> \o name,
        <<"/uploads/">> \o name,
        <<"/uploads/">> \o id \o <<"_">> \o name >>

\* The record's file_uri without a leading file://, <<>> when it has none
C11_Uri(r) ==
  IF r.existing_doc.file_uri = <<>> THEN <<>>
  ELSE LET u == r.existing_doc.file_uri[1]
       IN IF Len(u) > 0 /\ u[1] = "file://" THEN Tail(u) ELSE u

\* A re-summarize by ID that found no text in the store and has looked for
\* the source file
C11_HasLocated(p) ==
  /\ req[p].op = "update_summary" /\ InLog(req[p], "read_text")
  /\ Strip(req[p].stored) = <<>>
  /\ pc[p] # "r_locate"

\* C11: in re-summarize by ID, when the record's file_uri (a leading file://
\* removed) names an existing file, OCR gets that path even if conventional
\* places exist too; otherwise OCR gets the first existing one of
\* /tmp/<hash>_<name>, /tmp/<name>, /tmp/<id>_<name>, /uploads/<name>,
\* /uploads/<id>_<name>; when none exists no file is located and the request
\* ends with 400 without OCR.
C11_LocateOrder ==
  \A p \in Procs :
    C11_HasLocated(p) =>
      LET r == req[p]
          c == C11_Candidates(r)
      IN IF C11_Uri(r) # <<>> /\ Exists(fs, C11_Uri(r))
         THEN r.pdf_path = C11_Uri(r)
         ELSE IF \E k \in 1..5 : Exists(fs, c[k])
         THEN \E k \in 1..5 :
                /\ Exists(fs, c[k]) /\ \A j \in 1..(k - 1) : ~Exists(fs, c[j])
                /\ r.pdf_path = c[k]
         ELSE /\ r.pdf_path = NoPath /\ ~InLog(r, "ocr")
              /\ pc[p] = "done" /\ r.http = 400

\* C11 witness: the file the URI names and all five conventional places
\* exist, and OCR is about to read the file the URI names.
C11_Witness ==
  \E p \in Procs :
    /\ C11_HasLocated(p) /\ pc[p] = "r_ocr"
    /\ DOMAIN fs = LocateFiles
    /\ req[p].pdf_path = UriFile

\* Two requests that are uploads of the same bytes
SameBytesUploads(p, q) ==
  /\ p # q
  /\ req[p].op = "upload" /\ req[q].op = "upload"
  /\ req[p].content = req[q].content

\* The request has reported that a summary is stored
ReportedSummary(p) == req[p].status \in {"success", "summary_generated"}

\* C12 as stated: of two uploads of the same bytes served by two processes,
\* once one has reported success or summary_generated the record of their
\* common id is in the store with a non-empty summary, whatever the other
\* request does later.
C12_HarmlessRace ==
  \A p, q \in Procs :
    (SameBytesUploads(p, q) /\ ReportedSummary(p)) =>
      /\ req[p].doc_id \in DOMAIN store
      /\ ExistingSummary(store[req[p].doc_id]) # <<>>

\* The request is being served
Active(p) == pc[p] \notin {"idle", "done"}

\* C13 as stated: two requests served at the same time that carry different
\* bytes never have the same temporary file path, whichever of the three
\* paths that write a temporary file each of them is on.
C13_DistinctTempPaths ==
  \A p, q \in Procs :
    ( /\ p # q /\ Active(p) /\ Active(q)
      /\ req[p].content # req[q].content
      /\ req[p].temp_path # NoPath /\ req[q].temp_path # NoPath )
    => req[p].temp_path # req[q].temp_path

\* An upload whose .pdf name was accepted and whose id has been computed
UploadWithId(p) ==
  req[p].op = "upload" /\ pc[p] \notin {"idle", "u_validate"}
  /\ EndsWith(req[p].fname, PdfSuffix)

FreshSteps ==
  {"f_write", "f_extract", "f_gettext", "f_ocr", "f_writeback", "f_summarize",
   "f_writesum", "f_finally"}

\* C16: the id an upload works with is "doc_" + digest of its bytes and
\* nothing else: two uploads have the same id exactly when they have the
\* same bytes, whatever their filenames; and an upload that enters when the
\* id of its bytes is in the store (a first upload indexed them, under any
\* name) is treated as a duplicate: it never extracts and indexes.
C16_IdFromBytes ==
  /\ \A p \in Procs : UploadWithId(p) => req[p].doc_id = DocIdOf(req[p].content)
  /\ \A p, q \in Procs :
       (UploadWithId(p) /\ UploadWithId(q)) =>
         (req[p].doc_id = req[q].doc_id <=> req[p].content = req[q].content)
  /\ \A p \in Procs :
       (UploadWithId(p) /\ InLog(req[p], "check")
          /\ DocIdOf(req[p].content) \in DOMAIN req[p].store0)
       => /\ req[p].exists
          /\ pc[p] \notin FreshSteps
          /\ ~InLog(req[p], "extract") /\ ~InLog(req[p], "extract_failed")

\* C16 witness: the bytes uploaded as a.pdf and indexed with a summary are
\* uploaded again as b.pdf and answered already_exists.
C16_Witness ==
  \E p, q \in Procs :
    /\ SameBytesUploads(p, q)
    /\ req[p].fname = <<"a", ".pdf">> /\ req[q].fname = <<"b", ".pdf">>
    /\ req[p].status = "success" /\ pc[p] = "done"
    /\ req[q].n = 2 /\ req[q].doc_id \in DOMAIN req[q].store0
    /\ req[q].status = "already_exists" /\ pc[q] = "done"

\* C17: nothing makes summarization at-most-once: every upload that reports
\* success or summary_generated has called the summarizer itself and then
\* written its summary itself, also when another upload of the same bytes is
\* doing or has done the same; so two uploads of the same bytes that both
\* saw the id absent (or both saw it without summary) can both call the
\* summarizer and both write the summary of the one id.
C17_NotAtMostOnce ==
  \A p, q \in Procs :
    (SameBytesUploads(p, q) /\ ReportedSummary(p)) =>
      /\ 0 < Pos(req[p], "llm")
      /\ Pos(req[p], "llm") < Pos(req[p], "write_summary")
      /\ req[p].out_summary = req[p].summary

\* C17 witness: two uploads of the same bytes both saw the id absent, both
\* called the summarizer and both wrote the summary of the same id.
C17_Witness ==
  \E p, q \in Procs :
    /\ SameBytesUploads(p, q)
    /\ req[p].doc_id = req[q].doc_id
    /\ InLog(req[p], "check") /\ InLog(req[q], "check")
    /\ ~req[p].exists /\ ~req[q].exists
    /\ InLog(req[p], "llm") /\ InLog(req[q], "llm")
    /\ InLog(req[p], "write_summary") /\ InLog(req[q], "write_summary")
    /\ req[p].status = "success" /\ req[q].status = "success"

\* The ids the store holds now and did not hold when the request entered
CreatedSince(p) == DOMAIN store \ DOMAIN req[p].store0

\* C14 as stated, for requests that do not overlap: while and after a request
\* is served, every record the store held when it entered is still there; a
\* record is new only if the request is an upload that saw its id absent and
\* called extract-and-index, and the new record is that id's; a re-summarize
\* by ID, a re-summarize with file and a fetch info add no record.
C14_Lifecycle ==
  \A p \in Procs :
    req[p].op # "none" =>
      /\ DOMAIN req[p].store0 \subseteq DOMAIN store
      /\ CreatedSince(p) # {} =>
           /\ req[p].op = "upload"
           /\ UploadOfAbsent(p) /\ ~req[p].exists
           /\ InLog(req[p], "extract")
           /\ CreatedSince(p) = {req[p].doc_id}

\* C15: summarize_document given an empty text (or None) returns None and
\* does not reach the LLM; and no handler sends an empty text: at every
\* summarization step of the upload and supplied-file paths, and whenever
\* the LLM has been called, the text is not empty.
C15_EmptyTextNoLlm ==
  /\ summarize_document(<<>>) = {None} /\ ~CallsLlm(<<>>)
  /\ summarize_document(None) = {None} /\ ~CallsLlm(None)
  /\ \A p \in Procs :
       /\ InLog(req[p], "llm") => Truthy(req[p].extracted_text)
       /\ pc[p] \in {"d_summarize", "f_summarize", "w_summarize"} =>
            Truthy(req[p].extracted_text)
       /\ (pc[p] = "done" /\ req[p].extracted_text = <<>>) =>
            (~InLog(req[p], "llm") /\ req[p].summary = None)

\* C15 witness: a re-summarize by ID whose OCR found nothing ended without a
\* call of the LLM.
C15_Witness ==
  \E p \in Procs :
    /\ req[p].op = "update_summary" /\ pc[p] = "done"
    /\ InLog(req[p], "ocr") /\ req[p].extracted_text = <<>>
    /\ ~InLog(req[p], "llm") /\ req[p].summary = None

\* C18 as stated: a duplicate-without-summary upload whose OCR ran on the
\* file the record's file_uri names, no temporary copy written, leaves that
\* file on disk when it ends, whatever the file_uri.
C18_ForeignFileKept ==
  \A p \in Procs :
    ( /\ req[p].op = "upload" /\ req[p].exists /\ pc[p] = "done"
      /\ InLog(req[p], "ocr")
      /\ req[p].temp_path = NoPath /\ req[p].pdf_path # NoPath )
    => Exists(fs, req[p].pdf_path)

\* A re-summarize with supplied file whose id was in the store when it entered
WithFileOfPresent(p) ==
  /\ req[p].op = "update_with_file"
  /\ req[p].doc_id \in DOMAIN req[p].store0

\* C19: re-summarize with a supplied file, the id being in the store, never
\* reads the stored text; summary_updated_with_ocr is reported only after the
\* file was saved, OCR gave text, that text was written to attr_content in
\* place of what was there, the summarizer was called and the summary was
\* written, in this order and each having succeeded; when OCR gives nothing
\* (400) or the attr_content write fails (500) the request ends with that
\* error, the summarizer not called and no summary write attempted.
C19_WithFileOrder ==
  \A p \in Procs :
    WithFileOfPresent(p) =>
      LET r == req[p] IN
      /\ ~InLog(r, "read_text") /\ ~InLog(r, "read_text_failed")
      /\ ~InLog(r, "extract")
      /\ r.status = "summary_updated_with_ocr" =>
           /\ 0 < Pos(r, "tmp_write")
           /\ Pos(r, "tmp_write") < Pos(r, "ocr")
           /\ Pos(r, "ocr") < Pos(r, "write_content")
           /\ Pos(r, "write_content") < Pos(r, "llm")
           /\ Pos(r, "llm") < Pos(r, "write_summary")
           /\ ~InLog(r, "write_content_failed")
           /\ ~InLog(r, "write_summary_failed")
           /\ Truthy(r.ocr_text) /\ Truthy(r.summary)
           /\ r.out_summary = r.summary
           /\ store[r.doc_id].attr_content = << r.ocr_text >>
           /\ store[r.doc_id].summary = << r.summary >>
      /\ InLog(r, "write_content") =>
           store[r.doc_id].attr_content = << r.ocr_text >>
      /\ ((InLog(r, "ocr") /\ r.ocr_text = <<>>)
            \/ InLog(r, "write_content_failed")) =>
           /\ pc[p] \in {"w_finally", "done"}
           /\ r.status = "http_error"
           /\ r.http = IF InLog(r, "write_content_failed") THEN 500 ELSE 400
           /\ ~InLog(r, "llm")
           /\ ~InLog(r, "write_summary") /\ ~InLog(r, "write_summary_failed")
           /\ SummaryField(store, r.doc_id) = SummaryField(r.store0, r.doc_id)

\* C19 witness: the record held the text "x"; the request reported
\* summary_updated_with_ocr and the record now holds the OCR text and the
\* summary.
C19_Witness ==
  \E p \in Procs :
    /\ WithFileOfPresent(p) /\ req[p].status = "summary_updated_with_ocr"
    /\ req[p].store0[req[p].doc_id].attr_content = << <<"x">> >>
    /\ store[req[p].doc_id].attr_content = << <<"o">> >>
    /\ store[req[p].doc_id].summary = << <<"s">> >>

C21_PlainRead ==
  \A p \in Procs :
    req[p].op = "info" =>
      LET r == req[p] IN
      /\ store = r.store0
      /\ r.temp_path = NoPath /\ \A path \in DOMAIN fs : fs[path] # r.n
      /\ ~InLog(r, "ocr") /\ ~InLog(r, "llm") /\ ~Wrote(r)
      /\ (InLog(r, "check") /\ r.doc_id \in DOMAIN r.store0) =>
           /\ pc[p] = "done" /\ r.status = "found" /\ r.http = 200
           /\ r.out_summary = ExistingSummary(r.store0[r.doc_id])
           /\ r.has_summary <=>
                Strip(ExistingSummary(r.store0[r.doc_id])) # <<>>

\* extract-and-index was called by the request, with either outcome
CalledExtract(r) == InLog(r, "extract") \/ InLog(r, "extract_failed")

SummaryWrites(r) ==
  {k \in 1..Len(r.log) : r.log[k] \in {"write_summary", "write_summary_failed"}}

\* C23: in all four operations, for requests that do not overlap: a request
\* attempts the summary write at most once, after the summarizer was called
\* in the same request and with the non-empty value it returned; fetch info
\* never attempts it; and the summary field of a record differs from what it
\* was when the request entered only for the request's id, after its write
\* succeeded, and then holds exactly that value.
C23_SummaryWrites ==
  \A p \in Procs :
    req[p].op # "none" =>
    LET r == req[p] IN
    /\ \A j, k \in SummaryWrites(r) : j = k
    /\ (SummaryWrites(r) # {}
          \/ pc[p] \in {"d_writesum", "f_writesum", "r_writesum", "w_writesum"}) =>
         /\ r.op \in {"upload", "update_summary", "update_with_file"}
         /\ r.summary # None /\ r.summary # <<>>
         /\ \E j \in 1..Len(r.log) :
              r.log[j] = "llm" /\ \A k \in SummaryWrites(r) : j < k
    /\ store # r.store0 =>
         \A i \in DOMAIN store :
           SummaryField(store, i) # SummaryField(r.store0, i) =>
             /\ i = r.doc_id /\ InLog(r, "write_summary")
             /\ store[i].summary = << r.summary >>
             /\ store[i].summary # << <<>> >>

\* C23 witness: a re-summarize by ID replaced the stored summary "s" of a
\* complete record by the whitespace the summarizer returned.
C23_Witness ==
  \E p \in Procs :
    /\ req[p].op = "update_summary" /\ req[p].status = "summary_updated"
    /\ req[p].doc_id \in DOMAIN req[p].store0
    /\ req[p].store0[req[p].doc_id].summary = << <<"s">> >>
    /\ store[req[p].doc_id].summary = << <<WS>> >>
    /\ InLog(req[p], "write_summary") /\ Cardinality(SummaryWrites(req[p])) = 1

====
